---------------------------- MODULE Spec2Model ----------------------------
(***************************************************************************)
(* A model of the retrieval-augmented support pipeline of                  *)
(* ai-support-system (backend/main.py, backend/rag_system.py).             *)
(*                                                                         *)
(* Four specifications share the module:                                   *)
(*   SpecConf   RAGSystem._calculate_confidence as a pure function, applied *)
(*              to ranked match lists;                                     *)
(*   Spec       chat turns in flight together: the session store and the   *)
(*              chat turn (two atomic steps around its one suspending      *)
(*              await), over the knowledge base the process found;         *)
(*   SpecApi    every endpoint of the application, with its response;      *)
(*   SpecBatch  RAGSystem.add_documents_batch writing to the index.        *)
(*                                                                         *)
(* Python floats are modelled as exact rationals [num, den] in lowest      *)
(* terms, den > 0.                                                         *)
(***************************************************************************)
EXTENDS Integers, Sequences, FiniteSets, TLC

VARIABLES
    sessions,   \* main.py `sessions`: session id -> list of ChatMessage
    turns,      \* the suspended chat() coroutines, with their locals
    nuuid,      \* how many uuid.uuid4() values have been drawn
    index,      \* the Pinecone index: vector id -> [values, metadata]
    reply,      \* the response the step just taken returned, if any
    cdocs,      \* SpecConf: the match list given to _calculate_confidence
    cconf,      \* SpecConf: the value it returned
    cprev,      \* SpecConf: the previous list and its value
    cphase,     \* SpecConf: "input", "scored", "replaced", "grown"
    bdocs,      \* SpecBatch: the `documents` argument
    bvectors,   \* SpecBatch: the local `vectors`
    bi,         \* SpecBatch: the next value of the upsert loop's `i`
    bpc,        \* SpecBatch: "call", "upsert", "done", "raised"
    bstart      \* SpecBatch: the index when add_documents_batch was called

vars == <<sessions, turns, nuuid, index, reply,
          cdocs, cconf, cprev, cphase, bdocs, bvectors, bi, bpc, bstart>>

appVars   == <<sessions, turns, nuuid, index, reply>>
confVars  == <<cdocs, cconf, cprev, cphase>>
batchVars == <<bdocs, bvectors, bi, bpc, bstart>>

\* Python's None, kept a string so that it compares with every other id.
None == "None"

\* Python truthiness of an Optional[str]: None and "" are falsy.
Truthy(x) == x # None /\ x # ""

-----------------------------------------------------------------------------
(* Exact rationals for Python floats.                                      *)

Abs(n) == IF n < 0 THEN -n ELSE n

RECURSIVE GCD(_, _)
GCD(a, b) == IF b = 0 THEN a ELSE GCD(b, a % b)

\* n / d in lowest terms, d > 0.
Rat(n, d) == LET g == GCD(Abs(n), d) IN [num |-> n \div g, den |-> d \div g]

RLess(a, b) == a.num * b.den < b.num * a.den
RLeq(a, b)  == a.num * b.den <= b.num * a.den
REq(a, b)   == a.num * b.den = b.num * a.den
RMul(a, b)  == Rat(a.num * b.num, a.den * b.den)
RAdd(a, b)  == Rat(a.num * b.den + b.num * a.den, a.den * b.den)
RDivInt(a, n) == Rat(a.num, a.den * n)
RMin(a, b)  == IF RLeq(a, b) THEN a ELSE b

RECURSIVE RSum(_)
RSum(s) == IF Len(s) = 0 THEN Rat(0, 1) ELSE RAdd(s[1], RSum(Tail(s)))

-----------------------------------------------------------------------------
(* RAGSystem._calculate_confidence                                         *)

\* Scores are multiples of 1/ScoreDen in the cosine range [-1, 1].
ScoreDen == 2

\* top_k of the retrieval behind every confidence score.
TopK == 5

\* doc.get("score", 0.5)
DocScore(doc) == IF "score" \in DOMAIN doc THEN doc.score ELSE Rat(1, 2)

\* A slip that reads the score as a distance: the closer, the lower.
calculate_confidence_distance(docs) ==
    IF Len(docs) = 0 THEN Rat(3, 10)
    ELSE LET scores     == [i \in 1..Len(docs) |-> DocScore(docs[i])]
             avg_score  == RDivInt(RSum(scores), Len(scores))
             doc_factor == RMin(Rat(Len(docs), 3), Rat(1, 1))
         IN  RMin(RMul(RMul(RAdd(Rat(1, 1), Rat(-avg_score.num, avg_score.den)),
                            doc_factor), Rat(12, 10)), Rat(1, 1))

\* A slip that inverts the coverage factor: 3 / len(docs).
calculate_confidence_inverted(docs) ==
    IF Len(docs) = 0 THEN Rat(3, 10)
    ELSE LET scores     == [i \in 1..Len(docs) |-> DocScore(docs[i])]
             avg_score  == RDivInt(RSum(scores), Len(scores))
             doc_factor == RMin(Rat(3, Len(docs)), Rat(1, 1))
         IN  RMin(RMul(RMul(avg_score, doc_factor), Rat(12, 10)), Rat(1, 1))

\* A slip that takes no match for a neutral 0.5.
calculate_confidence_neutral_baseline(docs) ==
    IF Len(docs) = 0 THEN Rat(5, 10)
    ELSE LET scores     == [i \in 1..Len(docs) |-> DocScore(docs[i])]
             avg_score  == RDivInt(RSum(scores), Len(scores))
             doc_factor == RMin(Rat(Len(docs), 3), Rat(1, 1))
         IN  RMin(RMul(RMul(avg_score, doc_factor), Rat(12, 10)), Rat(1, 1))

\* RAGSystem._calculate_confidence
calculate_confidence(docs) ==
    IF Len(docs) = 0 THEN Rat(3, 10)
    ELSE LET scores     == [i \in 1..Len(docs) |-> DocScore(docs[i])]
             avg_score  == RDivInt(RSum(scores), Len(scores))
             doc_factor == RMin(Rat(Len(docs), 3), Rat(1, 1))
         IN  RMin(RMul(RMul(avg_score, doc_factor), Rat(12, 10)), Rat(1, 1))

\* The mean of a non-empty match list's scores.
AvgScore(docs) ==
    RDivInt(RSum([i \in 1..Len(docs) |-> DocScore(docs[i])]), Len(docs))

\* The values a similarity score takes: k / ScoreDen, -1 <= score <= 1.
ScoreVals == {Rat(k, ScoreDen) : k \in (-ScoreDen)..ScoreDen}

\* A match as _calculate_confidence reads it.
ScoredDoc(s) == [score |-> s]

\* Match lists as search_similar returns them: at most top_k matches in
\* descending order of score.
RankedLists ==
    {l \in UNION {[1..n -> {ScoredDoc(s) : s \in ScoreVals}] : n \in 0..TopK} :
        \A i \in 1..(Len(l) - 1) : RLeq(l[i + 1].score, l[i].score)}

ConfInit ==
    /\ cdocs \in RankedLists
    /\ cconf = None
    /\ cprev = None
    /\ cphase = "input"

\* get_response step 7: confidence = self._calculate_confidence(relevant_docs)
Score ==
    /\ cphase = "input"
    /\ cconf' = calculate_confidence(cdocs)
    /\ cphase' = "scored"
    /\ UNCHANGED <<cdocs, cprev>>
    /\ UNCHANGED <<appVars, batchVars>>

\* The same query answered with one match replaced by a strictly
\* higher-scoring one, the count unchanged.
ReplaceMatch ==
    /\ cphase = "scored"
    /\ \E i \in 1..Len(cdocs), s \in ScoreVals :
          /\ RLess(DocScore(cdocs[i]), s)
          /\ cdocs' = [cdocs EXCEPT ![i] = ScoredDoc(s)]
    /\ cprev' = [docs |-> cdocs, conf |-> cconf]
    /\ cconf' = calculate_confidence(cdocs')
    /\ cphase' = "replaced"
    /\ UNCHANGED <<appVars, batchVars>>

\* The same query answered with more matches of the same average score
\* (from no match at all: with any matches).
MoreMatches ==
    /\ cphase = "scored"
    /\ \E l \in RankedLists :
          /\ Len(l) > Len(cdocs)
          /\ Len(cdocs) > 0 => REq(AvgScore(l), AvgScore(cdocs))
          /\ cdocs' = l
    /\ cprev' = [docs |-> cdocs, conf |-> cconf]
    /\ cconf' = calculate_confidence(cdocs')
    /\ cphase' = "grown"
    /\ UNCHANGED <<appVars, batchVars>>

ConfNext ==
    \/ Score
    \/ ReplaceMatch
    \/ MoreMatches

-----------------------------------------------------------------------------
(* Strings. A string is a TLA+ string; where the code looks inside one     *)
(* (lower(), `in`) the model reads its characters from Chars.              *)

UpperCase ==
    <<"A", "B", "C", "D", "E", "F", "G", "H", "I", "J", "K", "L", "M", "N",
      "O", "P", "Q", "R", "S", "T", "U", "V", "W", "X", "Y", "Z">>

LowerCase ==
    <<"a", "b", "c", "d", "e", "f", "g", "h", "i", "j", "k", "l", "m", "n",
      "o", "p", "q", "r", "s", "t", "u", "v", "w", "x", "y", "z">>

\* str.lower() on one character (ASCII letters)
LowerChar(c) ==
    IF \E i \in 1..Len(UpperCase) : UpperCase[i] = c
    THEN LowerCase[CHOOSE i \in 1..Len(UpperCase) : UpperCase[i] = c]
    ELSE c

\* str.lower() on a string's characters
lower(chars) == [i \in 1..Len(chars) |-> LowerChar(chars[i])]

\* Python's `phrase in text` on strings: a contiguous occurrence.
Contains(phrase, text) ==
    \E i \in 0..(Len(text) - Len(phrase)) :
        SubSeq(text, i + 1, i + Len(phrase)) = phrase

Phrase_talk_to_human ==
    <<"t", "a", "l", "k", " ", "t", "o", " ", "h", "u", "m", "a", "n">>

Phrase_speak_to_agent ==
    <<"s", "p", "e", "a", "k", " ", "t", "o", " ", "a", "g", "e", "n", "t">>

Phrase_real_person ==
    <<"r", "e", "a", "l", " ", "p", "e", "r", "s", "o", "n">>

Phrase_support_team ==
    <<"s", "u", "p", "p", "o", "r", "t", " ", "t", "e", "a", "m">>

Phrase_escalate ==
    <<"e", "s", "c", "a", "l", "a", "t", "e">>

Phrase_not_helpful ==
    <<"n", "o", "t", " ", "h", "e", "l", "p", "f", "u", "l">>

Phrase_still_need_help ==
    <<"s", "t", "i", "l", "l", " ", "n", "e", "e", "d", " ", "h", "e", "l",
      "p">>

Phrase_manager ==
    <<"m", "a", "n", "a", "g", "e", "r">>

Phrase_supervisor ==
    <<"s", "u", "p", "e", "r", "v", "i", "s", "o", "r">>

Phrase_complaint ==
    <<"c", "o", "m", "p", "l", "a", "i", "n", "t">>

\* The phrase list of chat(), in its order.
EscalationPhrases ==
    <<Phrase_talk_to_human,
      Phrase_speak_to_agent,
      Phrase_real_person,
      Phrase_support_team,
      Phrase_escalate,
      Phrase_not_helpful,
      Phrase_still_need_help,
      Phrase_manager,
      Phrase_supervisor,
      Phrase_complaint>>

\* The text chat() adds to an escalating reply when no email is known
\* (U+1F4E7 stands for the envelope character).
Invitation ==
    "\n\n---\nU+1F4E7 **I'd be happy to connect you with our support team!** Please provide your email address, and I'll have someone reach out to you shortly."

\* Two customer messages: one without any phrase of the list, one holding
\* "manager" only once it is lower-cased.
MsgReturn == "How do I return an item?"

MsgManager == "I want to speak to a Manager"

Messages == {MsgReturn, MsgManager}

MsgReturnChars ==
    <<"H", "o", "w", " ", "d", "o", " ", "I", " ", "r", "e", "t", "u", "r",
      "n", " ", "a", "n", " ", "i", "t", "e", "m", "?">>

MsgManagerChars ==
    <<"I", " ", "w", "a", "n", "t", " ", "t", "o", " ", "s", "p", "e", "a",
      "k", " ", "t", "o", " ", "a", " ", "M", "a", "n", "a", "g", "e", "r">>

\* The characters of a message.
Chars(s) == IF s = MsgReturn THEN MsgReturnChars ELSE MsgManagerChars

\* The completion text the Groq API returns.
GenTexts == {"Sure."}

-----------------------------------------------------------------------------
(* The application: main.py over rag_system.py                             *)

\* Chat requests started in a behaviour of Spec.
MaxTurns == 2

\* Chat requests started in a behaviour of SpecApi.
MaxApiTurns == 1

\* uuid.uuid4() values drawn in a behaviour before add_knowledge stops
\* drawing document ids.
MaxUuid == 1

\* content[:1000], the metadata limit
ContentLimit == 1000

\* The n-th value uuid.uuid4() returns; the values are pairwise distinct.
Uuid(n) == "uuid-" \o ToString(n)

Min(a, b) == IF a <= b THEN a ELSE b

\* A local that has not been assigned, and one that has.
Unset   == <<>>
Some(v) == <<v>>

\* A carried text: the first `len` characters of the stream named `seed`.
Text(seed, len) == [seed |-> seed, len |-> len]

\* text[:k]
Prefix(text, k) == Text(text.seed, Min(text.len, k))

\* f"{title} {content}"
TitleAndContent(title, content) == [title |-> title, sep |-> " ", content |-> content]

\* SentenceTransformer.encode(text).tolist(): a vector determined by the text.
get_embedding(text) == [embedding_of |-> text]

\* ChatMessage(role=..., content=...): the timestamp default is evaluated
\* once, when the class is defined.
ChatMessage(role, content) ==
    [role |-> role, content |-> content, timestamp |-> "import-time"]

\* A slip that draws the new id once, at import time, like the timestamp
\* default of ChatMessage.
get_or_create_session_import_time_id(session_id) ==
    IF Truthy(session_id) /\ session_id \in DOMAIN sessions
    THEN [session_id |-> session_id, sessions |-> sessions, nuuid |-> nuuid]
    ELSE LET new_id == Uuid(1)
         IN  [session_id |-> new_id,
              sessions   |-> [s \in DOMAIN sessions \cup {new_id} |->
                                 IF s = new_id THEN <<>> ELSE sessions[s]],
              nuuid      |-> nuuid + 1]

\* get_or_create_session: the id and, as `sessions[id]`, the list returned,
\* with the store and the uuid count after the call.
get_or_create_session(session_id) ==
    IF Truthy(session_id) /\ session_id \in DOMAIN sessions
    THEN [session_id |-> session_id, sessions |-> sessions, nuuid |-> nuuid]
    ELSE LET new_id == Uuid(nuuid + 1)
         IN  [session_id |-> new_id,
              sessions   |-> [s \in DOMAIN sessions \cup {new_id} |->
                                 IF s = new_id THEN <<>> ELSE sessions[s]],
              nuuid      |-> nuuid + 1]

\* index.upsert(vectors=...): overwrite by id, in list order.
Upsert(idx, vectors) ==
    LET Last(d) == CHOOSE i \in 1..Len(vectors) :
                       /\ vectors[i].id = d
                       /\ \A j \in (i + 1)..Len(vectors) : vectors[j].id # d
    IN  [d \in DOMAIN idx \cup {vectors[i].id : i \in 1..Len(vectors)} |->
            IF \E i \in 1..Len(vectors) : vectors[i].id = d
            THEN [values   |-> vectors[Last(d)].values,
                  metadata |-> vectors[Last(d)].metadata]
            ELSE idx[d]]

\* The cosine similarity of a query's embedding and a stored vector: a
\* fixed function of the two texts (the embedding model is deterministic).
\* The table gives it for the texts of this model.
Similarity(query, values) ==
    LET title == values.embedding_of.title IN
    IF query = MsgReturn
    THEN (IF title = "Return policy" THEN Rat(1, 1) ELSE Rat(1, 2))
    ELSE (IF title = "Return policy" THEN Rat(1, 2) ELSE Rat(1, 1))

\* filter_dict = {"category": {"$eq": c}} if c else None
BuildFilter(category) ==
    IF Truthy(category) THEN Some([field |-> "category", eq |-> category])
    ELSE Unset

\* The ids of the vectors that pass the metadata filter.
Matching(idx, filter_dict) ==
    {d \in DOMAIN idx :
        \/ filter_dict = Unset
        \/ idx[d].metadata.category = filter_dict[1].eq}

\* search_similar: the results index.query may give, formatted. The index
\* returns the min(top_k, matching) nearest vectors in descending order of
\* score; vectors of equal score come in either order.
search_similar(idx, query, top_k, filter_dict) ==
    LET cand == Matching(idx, filter_dict)
        n    == Min(top_k, Cardinality(cand))
        sim(d) == Similarity(query, idx[d].values)
        ranked ==
            {p \in [1..n -> cand] :
                /\ \A i, j \in 1..n : i # j => p[i] # p[j]
                /\ \A i \in 1..(n - 1) : RLeq(sim(p[i + 1]), sim(p[i]))
                /\ \A d \in cand \ {p[i] : i \in 1..n} :
                       \A i \in 1..n : RLeq(sim(d), sim(p[i]))}
    IN  {[i \in 1..n |->
            [id       |-> p[i],
             score    |-> sim(p[i]),
             title    |-> idx[p[i]].metadata.title,
             content  |-> idx[p[i]].metadata.content,
             category |-> idx[p[i]].metadata.category,
             product  |-> idx[p[i]].metadata.product]] : p \in ranked}

\* A slip that compares the raw message with the lower-case phrases.
needs_escalation_raw(confidence_score, message) ==
    \/ RLess(confidence_score, Rat(1, 2))
    \/ \E i \in 1..Len(EscalationPhrases) :
          Contains(EscalationPhrases[i], Chars(message))

\* chat(): needs_escalation
needs_escalation(confidence_score, message) ==
    \/ RLess(confidence_score, Rat(1, 2))
    \/ \E i \in 1..Len(EscalationPhrases) :
          Contains(EscalationPhrases[i], lower(Chars(message)))

\* A slip that invites every escalating customer, email known or not.
build_response_text_always(response, escalation, user_email) ==
    IF escalation THEN response \o Invitation ELSE response

\* chat(): response_text
build_response_text(response, escalation, user_email) ==
    IF escalation /\ ~Truthy(user_email)
    THEN response \o Invitation
    ELSE response

\* The ChatRequest bodies sent, but for the session id: the two messages,
\* with and without an email and a category.
ChatBodies ==
    {[message |-> MsgReturn,  user_email |-> None, category |-> None],
     [message |-> MsgManager, user_email |-> "ann@example.com", category |-> None],
     [message |-> MsgReturn,  user_email |-> "ann@example.com", category |-> "returns"],
     [message |-> MsgManager, user_email |-> None, category |-> "returns"]}

\* The ChatRequest bodies sent: without a session id, with the id of a
\* session in the store, and one with an id the store does not hold.
ChatRequests ==
    {[message |-> b.message, session_id |-> s,
      user_email |-> b.user_email, category |-> b.category] :
        b \in ChatBodies, s \in {None} \cup DOMAIN sessions}
    \cup {[message |-> MsgReturn, session_id |-> "stale-id",
           user_email |-> None, category |-> None]}

\* A slip that binds every session id to one shared list, so that the user
\* message lands in all of them.
BeginTurn_shared_list(request) ==
    LET got        == get_or_create_session(request.session_id)
        session_id == got.session_id
        user_msg   == ChatMessage("user", request.message)
        history    == Append(got.sessions[session_id], user_msg)
    IN  [session_id   |-> session_id,
         sessions     |-> [s \in DOMAIN got.sessions |->
                              Append(got.sessions[s], user_msg)],
         nuuid        |-> got.nuuid,
         chat_history |-> SubSeq(history, 1, Len(history) - 1),
         upos         |-> Len(history)]

\* chat() up to the call of get_response: the session resolved, the user
\* message appended, history[:-1] taken.
BeginTurn(request) ==
    LET got        == get_or_create_session(request.session_id)
        session_id == got.session_id
        user_msg   == ChatMessage("user", request.message)
        history    == Append(got.sessions[session_id], user_msg)
    IN  [session_id   |-> session_id,
         sessions     |-> [got.sessions EXCEPT ![session_id] = history],
         nuuid        |-> got.nuuid,
         chat_history |-> SubSeq(history, 1, Len(history) - 1),
         upos         |-> Len(history)]

\* The delimiter between the entries of the context block.
ContextDelimiter == "\n\n---\n\n"

\* The context block for no match.
NoContext == "No specific information found in knowledge base."

\* f"**{doc['title']}** (Category: {doc['category']})\n{doc['content']}", as
\* the sequence of its pieces (a content is a Text, not a string).
ContextPart(doc) ==
    <<"**", doc.title, "** (Category: ", doc.category, ")\n", doc.content>>

\* "\n\n---\n\n".join(context_parts), as the sequence of its pieces.
RECURSIVE JoinParts(_)
JoinParts(parts) ==
    IF Len(parts) = 0 THEN <<>>
    ELSE IF Len(parts) = 1 THEN parts[1]
    ELSE parts[1] \o <<ContextDelimiter>> \o JoinParts(Tail(parts))

\* A slip that builds the context from the matches in reverse.
build_context_reversed(relevant_docs) ==
    LET n == Len(relevant_docs)
        context_parts == [i \in 1..n |-> ContextPart(relevant_docs[n + 1 - i])]
    IN  IF Len(context_parts) > 0 THEN JoinParts(context_parts) ELSE <<NoContext>>

\* get_response step 3: the context block, as the sequence of its pieces.
build_context(relevant_docs) ==
    LET context_parts == [i \in 1..Len(relevant_docs) |->
                             ContextPart(relevant_docs[i])]
    IN  IF Len(context_parts) > 0 THEN JoinParts(context_parts) ELSE <<NoContext>>

\* msg.role.upper(), for the two roles.
RoleUpper(role) ==
    CASE role = "user"      -> "USER"
      [] role = "assistant" -> "ASSISTANT"

\* "\n".join(lines)
RECURSIVE JoinLines(_)
JoinLines(lines) ==
    IF Len(lines) = 0 THEN ""
    ELSE IF Len(lines) = 1 THEN lines[1]
    ELSE lines[1] \o "\n" \o JoinLines(Tail(lines))

\* The messages of the history block.
HistoryWindow == 5

\* chat_history[-5:]
LastMessages(chat_history, k) ==
    SubSeq(chat_history, Len(chat_history) - Min(k, Len(chat_history)) + 1,
           Len(chat_history))

\* A slip that renders the first five messages.
build_history_text_oldest(chat_history) ==
    IF Len(chat_history) > 0
    THEN LET window == SubSeq(chat_history, 1, Min(HistoryWindow, Len(chat_history)))
         IN  JoinLines([i \in 1..Len(window) |->
                 RoleUpper(window[i].role) \o ": " \o window[i].content])
    ELSE ""

\* get_response step 4: the history block.
build_history_text(chat_history) ==
    IF Len(chat_history) > 0
    THEN LET window == LastMessages(chat_history, HistoryWindow)
         IN  JoinLines([i \in 1..Len(window) |->
                 RoleUpper(window[i].role) \o ": " \o window[i].content])
    ELSE ""

\* The locals of a suspended chat() coroutine. upos and apos are the places of its
\* own user and assistant messages in the session's list (0: none).
NewTurn(request, begun, relevant_docs) ==
    [request          |-> request,
     session_id       |-> begun.session_id,
     chat_history     |-> begun.chat_history,
     relevant_docs    |-> relevant_docs,
     context          |-> Some(build_context(relevant_docs)),
     history_text     |-> Some(build_history_text(begun.chat_history)),
     generated        |-> Unset,
     confidence       |-> Unset,
     needs_escalation |-> Unset,
     upos             |-> begun.upos,
     apos             |-> 0]

\* The locals when search_similar raised: no block was built.
FailedRetrieval(turn) == [turn EXCEPT !.context = Unset, !.history_text = Unset]

\* No response: the step taken returned nothing to a caller.
NoReply == [op |-> "none"]

\* What the framework answers when an exception leaves chat(); `turn` and
\* `fault` keep the coroutine's locals and the call that raised.
ChatError(turn, fault) ==
    [op |-> "chat", status |-> 500, fault |-> fault, turn |-> turn]

\* s without its k-th element.
Without(s, k) == SubSeq(s, 1, k - 1) \o SubSeq(s, k + 1, Len(s))

\* The user messages in the store: one per chat request started.
RECURSIVE UserMessages(_)
UserMessages(store) ==
    IF DOMAIN store = {} THEN 0
    ELSE LET sid == CHOOSE x \in DOMAIN store : TRUE
         IN  Cardinality({i \in 1..Len(store[sid]) : store[sid][i].role = "user"})
             + UserMessages([x \in DOMAIN store \ {sid} |-> store[x]])

\* chat() from its start to the await of the completion request: retrieval
\* succeeds and the coroutine suspends.
ChatRetrieves(request) ==
    LET begun == BeginTurn(request) IN
    /\ \E relevant_docs \in search_similar(index, request.message, TopK,
                                           BuildFilter(request.category)) :
          turns' = Append(turns, NewTurn(request, begun, relevant_docs))
    /\ sessions' = begun.sessions
    /\ nuuid' = begun.nuuid
    /\ reply' = NoReply
    /\ UNCHANGED index
    /\ UNCHANGED <<confVars, batchVars>>

\* chat() when get_embedding or index.query raises: the exception leaves
\* chat() and the framework answers 500.
ChatRetrievalFails(request) ==
    LET begun == BeginTurn(request) IN
    /\ reply' = ChatError(FailedRetrieval(NewTurn(request, begun, <<>>)), "retrieval")
    /\ sessions' = begun.sessions
    /\ nuuid' = begun.nuuid
    /\ UNCHANGED <<turns, index>>
    /\ UNCHANGED <<confVars, batchVars>>

\* chat() from the completion's arrival to its return.
ChatResumes(k) ==
    LET t == turns[k] IN
    /\ \E generated \in GenTexts :
          LET confidence   == calculate_confidence(t.relevant_docs)
              rag_response ==
                  [response         |-> generated,
                   sources          |-> [i \in 1..Len(t.relevant_docs) |->
                                            t.relevant_docs[i].title],
                   confidence_score |-> confidence,
                   context_used     |-> Len(t.relevant_docs) > 0]
              escalation   == needs_escalation(rag_response.confidence_score,
                                               t.request.message)
              response_text == build_response_text(rag_response.response,
                                                   escalation,
                                                   t.request.user_email)
              history == Append(sessions[t.session_id],
                                ChatMessage("assistant", response_text))
          IN  /\ sessions' = [sessions EXCEPT ![t.session_id] = history]
              /\ reply' =
                    [op               |-> "chat",
                     status           |-> 200,
                     fault            |-> "none",
                     response         |-> response_text,
                     session_id       |-> t.session_id,
                     sources          |-> rag_response.sources,
                     needs_escalation |-> escalation,
                     confidence_score |-> rag_response.confidence_score,
                     turn |-> [t EXCEPT !.generated = Some(generated),
                                        !.confidence = Some(confidence),
                                        !.needs_escalation = Some(escalation),
                                        !.apos = Len(history)]]
    /\ turns' = Without(turns, k)
    /\ UNCHANGED <<nuuid, index>>
    /\ UNCHANGED <<confVars, batchVars>>

\* A variant that takes the orphaned user message back when generation fails.
ChatGenerationFails_rollback(k) ==
    LET t == turns[k] IN
    /\ turns' = Without(turns, k)
    /\ reply' = ChatError(t, "generation")
    /\ sessions' = [sessions EXCEPT ![t.session_id] = Without(@, t.upos)]
    /\ UNCHANGED <<nuuid, index>>
    /\ UNCHANGED <<confVars, batchVars>>

\* A variant that records an apology as the assistant's reply when
\* generation fails.
ChatGenerationFails_apology(k) ==
    LET t == turns[k] IN
    /\ turns' = Without(turns, k)
    /\ reply' = ChatError([t EXCEPT !.apos = Len(sessions[t.session_id]) + 1],
                          "generation")
    /\ sessions' = [sessions EXCEPT ![t.session_id] =
          Append(@, ChatMessage("assistant", "Sorry."))]
    /\ UNCHANGED <<nuuid, index>>
    /\ UNCHANGED <<confVars, batchVars>>

\* chat() when the completion request fails (transport error, non-2xx
\* status, a body without choices[0].message.content): the exception
\* leaves get_response and chat(), and the framework answers 500.
ChatGenerationFails(k) ==
    LET t == turns[k] IN
    /\ turns' = Without(turns, k)
    /\ reply' = ChatError(t, "generation")
    /\ UNCHANGED <<sessions, nuuid, index>>
    /\ UNCHANGED <<confVars, batchVars>>

\* The KnowledgeItem bodies sent: one with an id and a long content, one
\* without an id and with the default category.
KnowledgeItems ==
    {[id |-> "kb-returns", title |-> "Return policy",
      content |-> Text("returns", ContentLimit + 200),
      category |-> "returns", product |-> "general"],
     [id |-> None, title |-> "Shipping times",
      content |-> Text("shipping", 40),
      category |-> "general", product |-> "general"]}

\* RAGSystem.add_document: the index after the upsert.
add_document(idx, doc_id, title, content, metadata) ==
    Upsert(idx, <<[id       |-> doc_id,
                   values   |-> get_embedding(TitleAndContent(title, content)),
                   metadata |-> [title    |-> title,
                                 content  |-> Prefix(content, ContentLimit),
                                 category |-> metadata.category,
                                 product  |-> metadata.product]]>>)

\* doc_id = item.id or str(uuid.uuid4())
DocId(item) == IF Truthy(item.id) THEN item.id ELSE Uuid(nuuid + 1)

\* add_knowledge, the document stored.
AddKnowledge(item) ==
    /\ Truthy(item.id) \/ nuuid < MaxUuid
    /\ index' = add_document(index, DocId(item), item.title, item.content,
                             [category |-> item.category,
                              product  |-> item.product])
    /\ nuuid' = IF Truthy(item.id) THEN nuuid ELSE nuuid + 1
    /\ reply' = [op |-> "add_knowledge", status |-> 200, id |-> DocId(item)]
    /\ UNCHANGED <<sessions, turns>>
    /\ UNCHANGED <<confVars, batchVars>>

\* add_knowledge when the embedding or the upsert raises: 500.
AddKnowledgeFails(item) ==
    /\ Truthy(item.id) \/ nuuid < MaxUuid
    /\ nuuid' = IF Truthy(item.id) THEN nuuid ELSE nuuid + 1
    /\ reply' = [op |-> "add_knowledge", status |-> 500]
    /\ UNCHANGED <<sessions, turns, index>>
    /\ UNCHANGED <<confVars, batchVars>>

\* clear_knowledge: index.delete(delete_all=True)
ClearKnowledge ==
    /\ index' = <<>>
    /\ reply' = [op |-> "clear_knowledge", status |-> 200]
    /\ UNCHANGED <<sessions, turns, nuuid>>
    /\ UNCHANGED <<confVars, batchVars>>

\* clear_knowledge when the delete raises: 500.
ClearKnowledgeFails ==
    /\ reply' = [op |-> "clear_knowledge", status |-> 500]
    /\ UNCHANGED <<sessions, turns, nuuid, index>>
    /\ UNCHANGED <<confVars, batchVars>>

\* The SearchRequest bodies sent.
SearchRequests ==
    {[query |-> MsgReturn, top_k |-> 1, category |-> None],
     [query |-> MsgReturn, top_k |-> TopK, category |-> "returns"]}

\* search_knowledge
SearchKnowledge(request) ==
    /\ \E results \in search_similar(index, request.query, request.top_k,
                                     BuildFilter(request.category)) :
          reply' = [op |-> "search_knowledge", status |-> 200,
                    results |-> results, count |-> Len(results)]
    /\ UNCHANGED <<sessions, turns, nuuid, index>>
    /\ UNCHANGED <<confVars, batchVars>>

\* search_knowledge when the embedding or the query raises: 500.
SearchKnowledgeFails ==
    /\ reply' = [op |-> "search_knowledge", status |-> 500]
    /\ UNCHANGED <<sessions, turns, nuuid, index>>
    /\ UNCHANGED <<confVars, batchVars>>

\* What self.index.describe_index_stats() does: it answers, or the request
\* fails (backend unreachable, an error status).
StatsOutcomes == {"answered", "unreachable", "failed"}

\* get_document_count without its try: whatever is raised leaves it.
get_document_count_unguarded(self_index, outcome) ==
    IF self_index = Unset \/ outcome # "answered"
    THEN [raised |-> TRUE, value |-> None]
    ELSE [raised |-> FALSE, value |-> Cardinality(DOMAIN self_index[1])]

\* RAGSystem.get_document_count: stats.total_vector_count, or 0 from the
\* bare except, which takes the backend's exception as well as the
\* AttributeError of self.index = None (a RAGSystem not yet initialized,
\* self_index = Unset here).
get_document_count(self_index, outcome) ==
    IF self_index = Unset \/ outcome # "answered"
    THEN [raised |-> FALSE, value |-> 0]
    ELSE [raised |-> FALSE, value |-> Cardinality(DOMAIN self_index[1])]

\* get_stats (rag_system is set once requests are served); an exception
\* leaving it would be answered 500.
GetStats ==
    /\ \E outcome \in StatsOutcomes :
          LET doc_count == get_document_count(Some(index), outcome)
          IN  reply' = IF doc_count.raised
                       THEN [op |-> "get_stats", status |-> 500,
                             outcome |-> outcome]
                       ELSE [op |-> "get_stats", status |-> 200,
                             outcome |-> outcome,
                             active_sessions |-> Cardinality(DOMAIN sessions),
                             knowledge_items |-> doc_count.value]
    /\ UNCHANGED <<sessions, turns, nuuid, index>>
    /\ UNCHANGED <<confVars, batchVars>>

\* The EscalationRequest bodies sent.
EscalationRequests ==
    {[session_id |-> s, user_email |-> "ann@example.com"] :
        s \in {"stale-id"} \cup DOMAIN sessions}

\* uuid.uuid4().hex[:6].upper(): six hex digits, not unique.
TicketHex == {"A1B2C3"}

\* escalate_to_support, the webhook reached and answered 2xx: the ticket is
\* returned. `request` and `delivered` keep the call's input and what
\* became of the post.
EscalateToSupport(request) ==
    /\ \E hex \in TicketHex :
          reply' = [op |-> "escalate_to_support", status |-> 200,
                    request |-> request, delivered |-> TRUE,
                    success |-> TRUE, ticket_id |-> hex]
    /\ UNCHANGED <<sessions, turns, nuuid, index>>
    /\ UNCHANGED <<confVars, batchVars>>

\* A variant that closes the session it could not hand over.
EscalateToSupportFails_closes_session(request) ==
    /\ reply' = [op |-> "escalate_to_support", status |-> 503,
                 request |-> request, delivered |-> FALSE,
                 detail |-> "Unable to reach support system. Please try again later."]
    /\ sessions' = [s \in DOMAIN sessions \ {request.session_id} |-> sessions[s]]
    /\ UNCHANGED <<turns, nuuid, index>>
    /\ UNCHANGED <<confVars, batchVars>>

\* escalate_to_support when the post or raise_for_status raises
\* httpx.HTTPError (no connection, a timeout, a status that is not 2xx): 503.
EscalateToSupportFails(request) ==
    /\ reply' = [op |-> "escalate_to_support", status |-> 503,
                 request |-> request, delivered |-> FALSE,
                 detail |-> "Unable to reach support system. Please try again later."]
    /\ UNCHANGED <<sessions, turns, nuuid, index>>
    /\ UNCHANGED <<confVars, batchVars>>

\* The index an earlier run of the application left behind: any of the
\* knowledge items, added in any order; the one sent without an id was
\* stored under a uuid of that run.
RECURSIVE Added(_, _)
Added(idx, items) ==
    IF Len(items) = 0 THEN idx
    ELSE Added(add_document(idx,
                            IF Truthy(items[1].id) THEN items[1].id ELSE Uuid(0),
                            items[1].title, items[1].content,
                            [category |-> items[1].category,
                             product  |-> items[1].product]),
               Tail(items))

StartIndexes ==
    {Added(<<>>, items) :
        items \in UNION {[1..n -> KnowledgeItems] : n \in 0..Cardinality(KnowledgeItems)}}

\* The process has started (lifespan has initialized the RAG system): no
\* session, no request in flight, the index with whatever it held.
AppInit ==
    /\ sessions = <<>>
    /\ turns = <<>>
    /\ nuuid = 0
    /\ index \in StartIndexes
    /\ reply = NoReply

\* The process started on an empty index.
ApiInit == AppInit /\ index = <<>>

\* Chat turns, any number of them in flight.
ChatNext ==
    \/ /\ UserMessages(sessions) < MaxTurns
       /\ \E request \in ChatRequests : ChatRetrieves(request)
    \/ /\ UserMessages(sessions) < MaxTurns
       /\ \E request \in ChatRequests : ChatRetrievalFails(request)
    \/ \E k \in 1..Len(turns) : ChatResumes(k)
    \/ \E k \in 1..Len(turns) : ChatGenerationFails(k)

\* The most chat requests of one conversation.
MaxPromptTurns == 5

\* The most chat requests of one conversation in flight together.
MaxInFlight == 2

\* The ChatRequest bodies of one conversation: the first without a session
\* id, every later one with the id the first was answered or began with.
PromptRequests ==
    {[message |-> m, session_id |-> s, user_email |-> None, category |-> None] :
        m \in Messages,
        s \in IF DOMAIN sessions = {} THEN {None} ELSE DOMAIN sessions}

\* One conversation, long enough for its history to exceed the history
\* block, its requests in flight together.
PromptNext ==
    \/ /\ UserMessages(sessions) < MaxPromptTurns
       /\ Len(turns) < MaxInFlight
       /\ \E request \in PromptRequests : ChatRetrieves(request)
    \/ \E k \in 1..Len(turns) : ChatResumes(k)
    \/ \E k \in 1..Len(turns) : ChatGenerationFails(k)

\* Every endpoint. Chat requests come one after the other here (Spec has
\* them in flight together); every other endpoint is called at any time,
\* also while a chat turn is suspended.
ApiNext ==
    \/ /\ UserMessages(sessions) < MaxApiTurns
       /\ turns = <<>>
       /\ \E request \in ChatRequests : ChatRetrieves(request)
    \/ /\ UserMessages(sessions) < MaxApiTurns
       /\ turns = <<>>
       /\ \E request \in ChatRequests : ChatRetrievalFails(request)
    \/ \E k \in 1..Len(turns) : ChatResumes(k)
    \/ \E k \in 1..Len(turns) : ChatGenerationFails(k)
    \/ \E item \in KnowledgeItems : AddKnowledge(item)
    \/ \E item \in KnowledgeItems : AddKnowledgeFails(item)
    \/ ClearKnowledge
    \/ ClearKnowledgeFails
    \/ \E request \in SearchRequests : SearchKnowledge(request)
    \/ SearchKnowledgeFails
    \/ GetStats
    \/ \E request \in EscalationRequests : EscalateToSupport(request)
    \/ \E request \in EscalationRequests : EscalateToSupportFails(request)

-----------------------------------------------------------------------------
(* RAGSystem.add_documents_batch, called by load_data.py                   *)

\* The longest `documents` list given.
MaxBatchDocs == 201

\* batch_size, the upsert limit
BatchSize == 100

\* doc.get(key, default)
DocGet(doc, key, default) == IF key \in DOMAIN doc THEN doc[key] ELSE default

\* get_embeddings_batch(texts): one vector per text, in the order given.
get_embeddings_batch(texts) == [i \in 1..Len(texts) |-> get_embedding(texts[i])]

\* A slip that gives every vector the first document's embedding.
BatchVectors_first_embedding(documents) ==
    LET texts == [i \in 1..Len(documents) |->
                     TitleAndContent(documents[i].title, documents[i].content)]
        embeddings == get_embeddings_batch(texts)
    IN  [i \in 1..Len(documents) |->
            [id       |-> documents[i].id,
             values   |-> embeddings[1],
             metadata |-> [title    |-> documents[i].title,
                           content  |-> Prefix(documents[i].content, ContentLimit),
                           category |-> DocGet(documents[i], "category", "general"),
                           product  |-> DocGet(documents[i], "product", "general")]]]

\* add_documents_batch: `vectors`, as prepared before the upsert loop.
BatchVectors(documents) ==
    LET texts == [i \in 1..Len(documents) |->
                     TitleAndContent(documents[i].title, documents[i].content)]
        embeddings == get_embeddings_batch(texts)
    IN  [i \in 1..Len(documents) |->
            [id       |-> documents[i].id,
             values   |-> embeddings[i],
             metadata |-> [title    |-> documents[i].title,
                           content  |-> Prefix(documents[i].content, ContentLimit),
                           category |-> DocGet(documents[i], "category", "general"),
                           product  |-> DocGet(documents[i], "product", "general")]]]

\* The i-th row of a dataset, as load_data.py makes a document of it, its
\* id numbered idn: every second content is longer than the metadata
\* limit, every third document has no product.
BatchDoc(i, idn) ==
    LET base == [id       |-> "doc_" \o ToString(idn),
                 title    |-> "Question " \o ToString(i),
                 content  |-> Text("answer " \o ToString(i),
                                   IF i % 2 = 0 THEN ContentLimit + i ELSE i),
                 category |-> IF i % 2 = 0 THEN "returns" ELSE "shipping"]
    IN  IF i % 3 = 0 THEN base
        ELSE [k \in DOMAIN base \cup {"product"} |->
                 IF k = "product" THEN "general" ELSE base[k]]

\* The `documents` lists given: n rows with ids 1..n, and the same with the
\* last row repeating the id of the first.
BatchInputs ==
    {[i \in 1..n |-> BatchDoc(i, IF repeated /\ i = n THEN 1 ELSE i)] :
        n \in 0..MaxBatchDocs, repeated \in BOOLEAN}

\* The index before the call: empty, or holding an older vector under the
\* first row's id beside a knowledge item.
BatchStartIndexes ==
    {<<>>,
     add_document(add_document(<<>>, "doc_1", "Question 1 (old)", Text("old", 7),
                               [category |-> "general", product |-> "general"]),
                  "kb-returns", "Return policy", Text("returns", ContentLimit + 200),
                  [category |-> "returns", product |-> "general"])}

BatchInit ==
    /\ bdocs \in BatchInputs
    /\ bvectors = <<>>
    /\ bi = 0
    /\ bpc = "call"
    /\ index \in BatchStartIndexes
    /\ bstart = index

\* add_documents_batch up to the upsert loop.
BatchPrepare ==
    /\ bpc = "call"
    /\ bvectors' = BatchVectors(bdocs)
    /\ bi' = 0
    /\ bpc' = "upsert"
    /\ UNCHANGED <<bdocs, bstart, index>>
    /\ UNCHANGED <<confVars, sessions, turns, nuuid, reply>>

\* add_documents_batch when the embedding model raises: nothing is written.
BatchEmbeddingFails ==
    /\ bpc = "call"
    /\ bpc' = "raised"
    /\ UNCHANGED <<bdocs, bvectors, bi, bstart, index>>
    /\ UNCHANGED <<confVars, sessions, turns, nuuid, reply>>

\* One pass of the loop: batch = vectors[i:i + batch_size], upserted.
BatchUpsert ==
    /\ bpc = "upsert"
    /\ bi < Len(bvectors)
    /\ index' = Upsert(index, SubSeq(bvectors, bi + 1,
                                     Min(bi + BatchSize, Len(bvectors))))
    /\ bi' = bi + BatchSize
    /\ UNCHANGED <<bdocs, bvectors, bpc, bstart>>
    /\ UNCHANGED <<confVars, sessions, turns, nuuid, reply>>

\* A variant that deletes what the call has written when an upsert raises.
BatchUpsertFails_rollback ==
    /\ bpc = "upsert"
    /\ bi < Len(bvectors)
    /\ bpc' = "raised"
    /\ index' = bstart
    /\ UNCHANGED <<bdocs, bvectors, bi, bstart>>
    /\ UNCHANGED <<confVars, sessions, turns, nuuid, reply>>

\* One pass of the loop when index.upsert raises: the exception leaves
\* add_documents_batch. The request may have failed before the backend
\* applied the batch or after it (a timeout, a lost response).
BatchUpsertFails ==
    /\ bpc = "upsert"
    /\ bi < Len(bvectors)
    /\ bpc' = "raised"
    /\ \E applied \in BOOLEAN :
          index' = IF applied
                   THEN Upsert(index, SubSeq(bvectors, bi + 1,
                                             Min(bi + BatchSize, Len(bvectors))))
                   ELSE index
    /\ UNCHANGED <<bdocs, bvectors, bi, bstart>>
    /\ UNCHANGED <<confVars, sessions, turns, nuuid, reply>>

\* range(0, len(vectors), batch_size) is exhausted: the call returns.
BatchReturn ==
    /\ bpc = "upsert"
    /\ bi >= Len(bvectors)
    /\ bpc' = "done"
    /\ UNCHANGED <<bdocs, bvectors, bi, bstart, index>>
    /\ UNCHANGED <<confVars, sessions, turns, nuuid, reply>>

BatchNext ==
    \/ BatchPrepare
    \/ BatchEmbeddingFails
    \/ BatchUpsert
    \/ BatchUpsertFails
    \/ BatchReturn

-----------------------------------------------------------------------------
(* The specifications                                                      *)

ConfIdle  == cdocs = <<>> /\ cconf = None /\ cprev = None /\ cphase = "idle"
BatchIdle ==
    bdocs = <<>> /\ bvectors = <<>> /\ bi = 0 /\ bpc = "idle" /\ bstart = <<>>

\* No session, no request in flight.
AppIdle == sessions = <<>> /\ turns = <<>> /\ nuuid = 0 /\ reply = NoReply

\* _calculate_confidence alone, on every ranked list of matches.
InitConf == ConfInit /\ ApiInit /\ BatchIdle

SpecConf == InitConf /\ [][ConfNext]_vars

\* The chat endpoint, requests in flight together, over an index that
\* holds any of the knowledge items.
Init == AppInit /\ ConfIdle /\ BatchIdle

Next == ChatNext

Spec == Init /\ [][Next]_vars

\* Every endpoint, from an empty index.
InitApi == ApiInit /\ ConfIdle /\ BatchIdle

SpecApi == InitApi /\ [][ApiNext]_vars

\* One long conversation, over the empty index.
InitPrompt == ApiInit /\ ConfIdle /\ BatchIdle

SpecPrompt == InitPrompt /\ [][PromptNext]_vars

\* load_data.py: its own process, its own RAGSystem, the shared index.
InitBatch == BatchInit /\ AppIdle /\ ConfIdle

SpecBatch == InitBatch /\ [][BatchNext]_vars

-----------------------------------------------------------------------------
(* Claims about _calculate_confidence                                      *)

InUnit(r) == RLeq(Rat(0, 1), r) /\ RLeq(r, Rat(1, 1))

\* C1: for every non-empty match list with scores in [-1, 1] the confidence
\* is in [0, 1], and for the empty list it is exactly 0.3.
C1_ConfidenceInUnitInterval ==
    cphase = "scored" =>
        IF Len(cdocs) = 0 THEN cconf = Rat(3, 10) ELSE InUnit(cconf)

\* C2 as stated: with the same average score (or from no match at all),
\* more matches never give a lower confidence.
C2_MoreMatchesNeverLower ==
    cphase = "grown" => RLeq(cprev.conf, cconf)

\* C2 as amended: between two non-empty lists of the same average score the
\* longer one scores at least as high when that average is >= 0, and at
\* most as high when it is negative.
C2_MoreMatchesMonotoneBySign ==
    (cphase = "grown" /\ Len(cprev.docs) > 0) =>
        IF RLeq(Rat(0, 1), AvgScore(cdocs))
        THEN RLeq(cprev.conf, cconf)
        ELSE RLeq(cconf, cprev.conf)

\* Two non-empty lists of the same positive average, below and at the
\* coverage bound K = 3, where the confidence strictly grows.
C2_Witness ==
    /\ cphase = "grown"
    /\ Len(cprev.docs) = 1
    /\ Len(cdocs) = 3
    /\ RLess(Rat(0, 1), AvgScore(cdocs))
    /\ RLess(cprev.conf, cconf)

\* C3: replacing one match by a strictly higher-scoring one, the count
\* unchanged, never lowers the confidence.
C3_HigherScoreNeverLower ==
    cphase = "replaced" => RLeq(cprev.conf, cconf)

\* A replacement inside a list of negative scores that strictly raises the
\* confidence.
C3_Witness ==
    /\ cphase = "replaced"
    /\ Len(cdocs) = 2
    /\ RLess(cprev.conf, Rat(0, 1))
    /\ RLess(cprev.conf, cconf)

-----------------------------------------------------------------------------
(* Claims about the chat turn and the session store                        *)

\* The chat turn that returned in the step just taken.
Returned == reply.op = "chat"
Answered == reply.op = "chat" /\ reply.status = 200

\* The messages of this model that hold a phrase of the list once
\* lower-cased ("Manager"), read off the texts themselves.
MessagesWithPhrase == {MsgManager}

\* C4: the escalation flag of a chat turn is true whenever the confidence
\* is below 0.5, true whenever the lower-cased message holds a phrase of the
\* list, false when neither holds, whatever the history, email or category.
C4_EscalationDecision ==
    Answered =>
        LET low    == RLess(reply.confidence_score, Rat(1, 2))
            phrase == reply.turn.request.message \in MessagesWithPhrase
        IN  /\ low => reply.needs_escalation
            /\ phrase => reply.needs_escalation
            /\ (~low /\ ~phrase) => ~reply.needs_escalation

\* A turn that escalates on the phrase alone, its confidence at least 0.5,
\* in a session with earlier messages.
C4_Witness ==
    /\ Answered
    /\ ~RLess(reply.confidence_score, Rat(1, 2))
    /\ reply.turn.request.message = MsgManager
    /\ reply.needs_escalation
    /\ Len(reply.turn.chat_history) > 0

\* The turn begun in this step: its locals, whether it suspended or failed
\* at once.
BegunTurn == IF Len(turns') > Len(turns) THEN turns'[Len(turns')] ELSE reply'.turn
TurnBegins ==
    \/ Len(turns') > Len(turns)
    \/ reply'.op = "chat" /\ reply'.fault = "retrieval"

\* Every session id get_or_create_session has returned is a key of the
\* store: the calls so far returned exactly DOMAIN sessions.
\* C5: a call without an id, or with an id the store does not hold, returns
\* an id no earlier call returned, bound to an empty list; a call with an
\* id of the store returns that id with the session's messages so far.
C5_GetOrCreateSession ==
    [][TurnBegins =>
        LET t   == BegunTurn
            sid == t.session_id
            req == t.request.session_id
        IN  IF req \in DOMAIN sessions
            THEN /\ sid = req
                 /\ t.chat_history = sessions[req]
                 /\ DOMAIN sessions' = DOMAIN sessions
            ELSE /\ sid \notin DOMAIN sessions
                 /\ t.chat_history = <<>>
                 /\ DOMAIN sessions' = DOMAIN sessions \cup {sid}
                 /\ Len(sessions'[sid]) = 1]_vars

\* Two sessions in the store, the second made for a request that named an
\* id the store does not hold.
C5_Witness ==
    /\ Cardinality(DOMAIN sessions) = 2
    /\ Len(turns) > 0
    /\ turns[Len(turns)].request.session_id = "stale-id"
    /\ turns[Len(turns)].session_id = Uuid(2)

\* C6: turns of one session in flight together leave each completed turn's
\* user message directly followed by its own assistant reply.
C6_ReplyFollowsOwnMessage ==
    Answered => reply.turn.apos = reply.turn.upos + 1

IsPrefix(s, t) == Len(s) <= Len(t) /\ SubSeq(t, 1, Len(s)) = s

C8_FailedTurn ==
    [][(reply'.op = "chat" /\ reply'.fault # "none") =>
        LET t == reply'.turn
            h == sessions'[t.session_id]
            user_msg == ChatMessage("user", t.request.message)
        IN  /\ reply'.status = 500
            /\ t.confidence = Unset
            /\ t.needs_escalation = Unset
            /\ t.generated = Unset
            /\ t.apos = 0
            /\ t.upos = Len(t.chat_history) + 1
            /\ t.upos \in 1..Len(h)
            /\ SubSeq(h, 1, t.upos) = Append(t.chat_history, user_msg)
            /\ reply'.fault = "generation" => sessions' = sessions
            /\ reply'.fault = "retrieval" =>
                  /\ t.upos = Len(h)
                  /\ \A sid \in DOMAIN sessions :
                        sid # t.session_id => sessions'[sid] = sessions[sid]]_vars

\* A turn that failed at generation while it was the only one of its
\* session: its user message is the session's last message.
C8_Witness ==
    /\ Returned
    /\ reply.fault = "generation"
    /\ reply.turn.upos = Len(sessions[reply.turn.session_id])
    /\ reply.turn.upos > 1

\* C9: a successful turn returns the generated text followed by the
\* invitation exactly when it escalates and the request has no user_email,
\* the generated text otherwise; that text is the assistant message it
\* appended last; the session id, flag and confidence returned are the
\* turn's own.
C9_ReplyText ==
    Answered =>
        LET t == reply.turn
            h == sessions[t.session_id]
            invited == reply.needs_escalation
                       /\ t.request.user_email \in {None, ""}
        IN  /\ reply.response = (IF invited THEN t.generated[1] \o Invitation
                                            ELSE t.generated[1])
            /\ t.apos = Len(h)
            /\ h[t.apos] = ChatMessage("assistant", reply.response)
            /\ reply.session_id = t.session_id
            /\ reply.needs_escalation = t.needs_escalation[1]
            /\ reply.confidence_score = t.confidence[1]

\* An escalating turn of a customer whose email is known: no invitation.
C9_Witness ==
    /\ Answered
    /\ reply.needs_escalation
    /\ reply.turn.request.user_email = "ann@example.com"
    /\ reply.response = "Sure."

-----------------------------------------------------------------------------
(* Claims about add_documents_batch                                        *)

\* The vector the call is to store for the i-th document.
OwnVector(i) ==
    [values   |-> get_embedding(TitleAndContent(bdocs[i].title, bdocs[i].content)),
     metadata |-> [title    |-> bdocs[i].title,
                   content  |-> Text(bdocs[i].content.seed,
                                     IF bdocs[i].content.len > 1000 THEN 1000
                                     ELSE bdocs[i].content.len),
                   category |-> bdocs[i].category,
                   product  |-> IF "product" \in DOMAIN bdocs[i]
                                THEN bdocs[i].product ELSE "general"]]

BatchIds == {bdocs[i].id : i \in 1..Len(bdocs)}

\* The ids whose vector the call wrote or replaced.
Contributed == {d \in DOMAIN index : d \notin DOMAIN bstart \/ index[d] # bstart[d]}

\* C10 as stated: the call leaves exactly N vectors of its own, each under
\* its document's id, with that document's embedding and truncated content.
C10_ExactlyNVectors ==
    bpc = "done" =>
        /\ Cardinality(Contributed) = Len(bdocs)
        /\ \A i \in 1..Len(bdocs) : index[bdocs[i].id] = OwnVector(i)

\* C10 as amended: the call leaves one vector per distinct id, that of a
\* document given with the id, and touches no other vector; with N
\* documents of pairwise distinct ids these are exactly N vectors, each
\* document's own.
C10_OneVectorPerId ==
    bpc = "done" =>
        /\ Contributed = BatchIds
        /\ DOMAIN index = DOMAIN bstart \cup BatchIds
        /\ \A d \in BatchIds :
              \E i \in 1..Len(bdocs) : bdocs[i].id = d /\ index[d] = OwnVector(i)
        /\ \A d \in DOMAIN index \ BatchIds : index[d] = bstart[d]
        /\ Cardinality(BatchIds) = Len(bdocs) =>
              /\ Cardinality(Contributed) = Len(bdocs)
              /\ \A i \in 1..Len(bdocs) : index[bdocs[i].id] = OwnVector(i)

\* A call with more documents than two upsert batches hold, their ids
\* pairwise distinct, a content cut at the limit, over an index that held
\* an older vector under one of the ids.
C10_Witness ==
    /\ bpc = "done"
    /\ Len(bdocs) > 2 * BatchSize
    /\ Cardinality(BatchIds) = Len(bdocs)
    /\ "doc_1" \in DOMAIN bstart
    /\ index["doc_2"].metadata.content.len = ContentLimit
    /\ Cardinality(DOMAIN index) = Len(bdocs) + 1

\* C11: the vectors are upserted in consecutive chunks of at most 100 in
\* input order, each applied on its own: while the loop runs, and after an
\* upsert has raised, every vector of the chunks already upserted is in the
\* index, no vector of a later chunk is, and the index keeps what it held
\* under other ids; a raised call has not returned.
C11_ChunksIndependent ==
    bpc \in {"upsert", "raised"} =>
        LET n       == Len(bdocs)
            done    == Min(bi, Len(bvectors))
            reached == IF bpc = "raised"
                       THEN Min(bi + BatchSize, Len(bvectors)) ELSE done
            Ids(k)  == {bdocs[j].id : j \in 1..k}
        IN  /\ bi % BatchSize = 0
            /\ \A d \in Ids(done) :
                  /\ d \in DOMAIN index
                  /\ \E j \in 1..reached : bdocs[j].id = d /\ index[d] = OwnVector(j)
            /\ \A j \in (reached + 1)..n :
                  bdocs[j].id \notin Ids(reached) =>
                      IF bdocs[j].id \in DOMAIN bstart
                      THEN index[bdocs[j].id] = bstart[bdocs[j].id]
                      ELSE bdocs[j].id \notin DOMAIN index
            /\ \A d \in DOMAIN bstart \ Ids(reached) :
                  d \in DOMAIN index /\ index[d] = bstart[d]

\* The upsert of the third chunk has raised: the two hundred vectors of the
\* first two chunks are in the index, the vector of the third is not.
C11_Witness ==
    /\ bpc = "raised"
    /\ bi = 2 * BatchSize
    /\ Len(bdocs) = 2 * BatchSize + 1
    /\ Cardinality(BatchIds) = Len(bdocs)
    /\ "doc_200" \in DOMAIN index
    /\ "doc_201" \notin DOMAIN index
    /\ index # bstart

-----------------------------------------------------------------------------
(* Claims about the operations beside chat                                 *)

\* C12: get_document_count never raises; it returns 0 when the backend is
\* unreachable, fails, or self.index is not initialized, and the backend's
\* vector count otherwise; get_stats always answers with a knowledge_items
\* number, which is that count or 0.
C12_CountNeverRaises ==
    /\ \A self_index \in {Some(index), Unset}, outcome \in StatsOutcomes :
          LET r == get_document_count(self_index, outcome)
          IN  /\ ~r.raised
              /\ r.value = IF self_index # Unset /\ outcome = "answered"
                           THEN Cardinality(DOMAIN index) ELSE 0
    /\ reply.op = "get_stats" =>
          /\ reply.status = 200
          /\ reply.knowledge_items =
                IF reply.outcome = "answered" THEN Cardinality(DOMAIN index) ELSE 0

\* get_stats answered 0 for an index that holds vectors: the backend was
\* not reached.
C12_Witness ==
    /\ reply.op = "get_stats"
    /\ reply.outcome = "unreachable"
    /\ reply.status = 200
    /\ reply.knowledge_items = 0
    /\ Cardinality(DOMAIN index) = 2

\* C13: an escalation whose webhook delivery fails is answered 503 "unable
\* to reach support system", a delivered one 200 with its ticket, and
\* neither changes the session store: every session keeps its id and its
\* message list.
C13_EscalationKeepsSessions ==
    [][(reply'.op = "escalate_to_support" /\ reply' # reply) =>
          /\ sessions' = sessions
          /\ IF reply'.delivered
             THEN reply'.status = 200 /\ reply'.success
             ELSE /\ reply'.status = 503
                  /\ reply'.detail =
                        "Unable to reach support system. Please try again later."]_vars

\* A failed escalation of a session that holds messages.
C13_Witness ==
    /\ reply.op = "escalate_to_support"
    /\ reply.status = 503
    /\ reply.request.session_id \in DOMAIN sessions
    /\ Len(sessions[reply.request.session_id]) > 0

-----------------------------------------------------------------------------
(* Claims about the turn end to end and about the prompt                   *)

\* C14: with an empty knowledge base, an answered turn whose message holds
\* no lexicon phrase got no match from retrieval and returns confidence
\* exactly 0.3, no source, and the escalation flag set.
C14_EmptyKnowledgeBase ==
    (Answered /\ index = <<>> /\ reply.turn.request.message \notin MessagesWithPhrase) =>
        /\ reply.turn.relevant_docs = <<>>
        /\ reply.confidence_score = Rat(3, 10)
        /\ reply.sources = <<>>
        /\ reply.needs_escalation

\* "How do I return an item?" answered over the empty index.
C14_Witness ==
    /\ Answered
    /\ index = <<>>
    /\ reply.turn.request.message = MsgReturn
    /\ reply.confidence_score = Rat(3, 10)
    /\ reply.needs_escalation

\* The turns whose prompt has been built: those suspended at the completion
\* request and the one that has just ended after it.
PromptTurns ==
    {turns[k] : k \in 1..Len(turns)}
        \cup (IF reply.op = "chat" /\ reply.fault # "retrieval"
              THEN {reply.turn} ELSE {})

\* The line of one message in the history block.
HistoryLine(msg) ==
    (IF msg.role = "user" THEN "USER" ELSE "ASSISTANT") \o ": " \o msg.content

\* C15: the history block of a turn is made of the last 5 (or fewer) of the
\* messages that stood in the session before the turn's own user message,
\* oldest first, each as upper-cased role, colon, content, and so never of
\* the message being answered, whatever other turns of the session began
\* or ended meanwhile.
C15_HistoryBlock ==
    \A t \in PromptTurns :
        LET before == SubSeq(sessions[t.session_id], 1, t.upos - 1)
            first  == IF Len(before) > 5 THEN Len(before) - 4 ELSE 1
            text   == t.history_text[1]
        IN  /\ sessions[t.session_id][t.upos] = ChatMessage("user", t.request.message)
            /\ Len(before) = 0 => text = ""
            /\ Len(before) = 1 => text = HistoryLine(before[1])
            /\ Len(before) > 1 =>
                  \E rest \in {JoinLines([i \in 1..(Len(before) - first) |->
                                    HistoryLine(before[first + i])])} :
                      text = HistoryLine(before[first]) \o "\n" \o rest

\* A turn that began after six messages, while another turn of the session
\* was in flight, and has been answered.
C15_Witness ==
    /\ Answered
    /\ reply.turn.upos = 8
    /\ Len(reply.turn.chat_history) = 7
    /\ reply.turn.chat_history[7].role = "user"
    /\ reply.turn.apos = 10

\* C16: the context block of a turn is never empty: it is the fixed
\* sentinel exactly when retrieval returned no match, and otherwise one
\* entry per match, title and category and content, in the ranked order
\* retrieval returned, with the delimiter between neighbours.
C16_ContextBlock ==
    \A t \in PromptTurns :
        LET context == t.context[1]
            docs    == t.relevant_docs
            n       == Len(docs)
        IN  /\ Len(context) > 0
            /\ context[1] # ""
            /\ (Len(context) = 1 /\ context[1] = NoContext) <=> (n = 0)
            /\ n > 0 =>
                  /\ Len(context) = 7 * n - 1
                  /\ \A i \in 1..n :
                        /\ context[7 * i - 6] = "**"
                        /\ context[7 * i - 5] = docs[i].title
                        /\ context[7 * i - 4] = "** (Category: "
                        /\ context[7 * i - 3] = docs[i].category
                        /\ context[7 * i - 2] = ")\n"
                        /\ context[7 * i - 1] = docs[i].content
                        /\ i < n => context[7 * i] = "\n\n---\n\n"

\* A turn in flight whose retrieval returned two matches of different
\* score and category.
C16_Witness ==
    \E k \in 1..Len(turns) :
        /\ Len(turns[k].relevant_docs) = 2
        /\ RLess(turns[k].relevant_docs[2].score, turns[k].relevant_docs[1].score)
        /\ turns[k].relevant_docs[1].category # turns[k].relevant_docs[2].category
        /\ Len(turns[k].context[1]) = 13

-----------------------------------------------------------------------------
(* Claims about the session store under concurrent turns                   *)

\* The turn that takes this step: the one begun, or the one that ends.
ActingTurn == IF TurnBegins THEN BegunTurn ELSE reply'.turn

\* C17: a step of a chat turn, succeeding or failing, changes the message
\* list of no session but the one the turn resolved when it began (the one
\* named in its request when the store holds it, a new one otherwise), and
\* removes or adds no other session, whatever turns of other sessions are
\* in flight.
C17_SessionsIsolated ==
    [][LET t   == ActingTurn
           sid == t.session_id
       IN  /\ \A other \in DOMAIN sessions \ {sid} :
                 other \in DOMAIN sessions' /\ sessions'[other] = sessions[other]
           /\ DOMAIN sessions' \subseteq DOMAIN sessions \cup {sid}
           /\ sid \in DOMAIN sessions'
           /\ TurnBegins =>
                 sid = IF t.request.session_id \in DOMAIN sessions
                       THEN t.request.session_id ELSE Uuid(nuuid + 1)
           /\ ~TurnBegins =>
                 \E k \in 1..Len(turns) :
                     /\ turns' = Without(turns, k)
                     /\ turns[k].session_id = sid
                     /\ turns[k].upos = t.upos]_vars

\* A turn of one session answered while a turn of another session is in
\* flight.
C17_Witness ==
    /\ Answered
    /\ Len(turns) = 1
    /\ turns[1].session_id # reply.turn.session_id
    /\ Len(sessions[turns[1].session_id]) = 1
    /\ Len(sessions[reply.turn.session_id]) = 2

=============================================================================
